---------------------------- MODULE Spec2Model ----------------------------
(***************************************************************************)
(* Model of src/main.py: the Streamlit monthly weather forecaster.         *)
(*                                                                         *)
(* State: the input widgets (city, year, month), the credential, the       *)
(* st.cache_data memo of fetch_monthly_data, and the outcome of the        *)
(* current script run.  Operations: the user edits a widget (the script    *)
(* reruns without fetching), the user presses "Fetch Monthly Forecast"     *)
(* (fetch_monthly_data runs through its cache), and time passes.           *)
(***************************************************************************)
EXTENDS Integers, Sequences, FiniteSets, TLC

VARIABLES
    city,      \* st.text_input "City"                      (main.py:26)
    year,      \* st.number_input "Year"                    (main.py:28)
    month,     \* st.selectbox "Month"                      (main.py:30)
    api_key,   \* the credential                            (main.py:9-18)
    cache,     \* st.cache_data store of fetch_monthly_data (main.py:33)
    issued,    \* history: GETs sent during the last TTL seconds, per argument tuple
    last       \* what the current script run did           (main.py:83-117)

vars == <<city, year, month, api_key, cache, issued, last>>

----------------------------------------------------------------------------
(* Bounds of the model and constants of the program.                       *)

TTL == 3600          \* @st.cache_data(ttl=3600)
MinYear == 2020      \* number_input min_value
MaxYear == 2030      \* number_input max_value
DefaultYear == 2025  \* number_input value
DefaultMonth == 11   \* selectbox index=10 of range(1, 13)
Tick == 1800         \* seconds by which one Advance step moves the clock
MaxEntries == 2      \* live cache entries the model lets accumulate
MaxDays == 2         \* length of the enumerated short `days` lists

----------------------------------------------------------------------------
(* Calendar arithmetic of datetime(year, month + 1, 1) - timedelta(days=1) *)
(* (CPython's proleptic Gregorian ordinals).                               *)

DAYS_IN_MONTH == <<31, 28, 31, 30, 31, 30, 31, 31, 30, 31, 30, 31>>

RECURSIVE SumDays(_)
SumDays(m) == IF m = 0 THEN 0 ELSE SumDays(m - 1) + DAYS_IN_MONTH[m]

\* Days of the year before the first of month m, February taken as 28.
DAYS_BEFORE_MONTH == [m \in 1..12 |-> SumDays(m - 1)]

is_leap(y) == y % 4 = 0 /\ (y % 100 # 0 \/ y % 400 = 0)

days_before_year(y) ==
    LET p == y - 1
    IN  p * 365 + (p \div 4) - (p \div 100) + (p \div 400)

days_in_month(y, m) ==
    IF m = 2 /\ is_leap(y) THEN 29 ELSE DAYS_IN_MONTH[m]

\* Variant: the leap day after February is not counted.
days_before_month_no_leap(y, m) == DAYS_BEFORE_MONTH[m]
days_before_month(y, m) ==
    DAYS_BEFORE_MONTH[m] + (IF m > 2 /\ is_leap(y) THEN 1 ELSE 0)

ymd2ord(y, m, d) == days_before_year(y) + days_before_month(y, m) + d

ord2ymd(ord) ==
    LET n0   == ord - 1
        n400 == n0 \div 146097
        r400 == n0 % 146097
        n100 == r400 \div 36524
        r100 == r400 % 36524
        n4   == r100 \div 1461
        r4   == r100 % 1461
        n1   == r4 \div 365
        n    == r4 % 365
        y    == n400 * 400 + 1 + n100 * 100 + n4 * 4 + n1
        leapyear == n1 = 3 /\ (n4 # 24 \/ n100 = 3)
        mon0 == (n + 50) \div 32
        pre0 == DAYS_BEFORE_MONTH[mon0] + (IF mon0 > 2 /\ leapyear THEN 1 ELSE 0)
        mon  == IF pre0 > n THEN mon0 - 1 ELSE mon0
        pre  == IF pre0 > n
                THEN pre0 - (DAYS_IN_MONTH[mon] + (IF mon = 2 /\ leapyear THEN 1 ELSE 0))
                ELSE pre0
    IN  IF n1 = 4 \/ n100 = 4
        THEN <<y - 1, 12, 31>>
        ELSE <<y, mon, n - pre + 1>>

----------------------------------------------------------------------------
(* Date strings: f"{year}-{month:02d}-01", strftime("%Y-%m-%d") and the    *)
(* provider's "YYYY-MM-DD" values, as sequences of characters.             *)

DIGITS == <<"0", "1", "2", "3", "4", "5", "6", "7", "8", "9">>

RECURSIVE fmt_int(_)
fmt_int(n) ==
    IF n < 10 THEN <<DIGITS[n + 1]>>
    ELSE fmt_int(n \div 10) \o <<DIGITS[(n % 10) + 1]>>

fmt_02d(n) == IF n < 10 THEN <<"0">> \o fmt_int(n) ELSE fmt_int(n)

strftime(ymd) ==
    fmt_int(ymd[1]) \o <<"-">> \o fmt_02d(ymd[2]) \o <<"-">> \o fmt_02d(ymd[3])

start_date(y, m) == fmt_int(y) \o <<"-">> \o fmt_02d(m) \o <<"-", "0", "1">>

end_date(y, m) ==
    IF m = 12 THEN fmt_int(y) \o <<"-", "1", "2", "-", "3", "1">>
    ELSE strftime(ord2ymd(ymd2ord(y, m + 1, 1) - 1))

IsDigit(c) == \E i \in 1..10 : DIGITS[i] = c
DigitVal(c) == (CHOOSE i \in 1..10 : DIGITS[i] = c) - 1

\* pd.to_datetime on one ISO date string: the day's ordinal, or 0 when the
\* string is not a calendar date (to_datetime raises).
parse_date(s) ==
    IF /\ Len(s) = 10
       /\ s[5] = "-" /\ s[8] = "-"
       /\ \A i \in {1, 2, 3, 4, 6, 7, 9, 10} : IsDigit(s[i])
    THEN LET y == DigitVal(s[1]) * 1000 + DigitVal(s[2]) * 100
                  + DigitVal(s[3]) * 10 + DigitVal(s[4])
             m == DigitVal(s[6]) * 10 + DigitVal(s[7])
             d == DigitVal(s[9]) * 10 + DigitVal(s[10])
         IN  IF y >= 1 /\ m \in 1..12 /\ d >= 1 /\ d <= days_in_month(y, m)
             THEN ymd2ord(y, m, d)
             ELSE 0
    ELSE 0

----------------------------------------------------------------------------
(* JSON values of the provider's payload.  A field of an entry is absent,  *)
(* null, or holds a value.                                                 *)

Missing(v) == [t |-> "missing", v |-> v]
Null(v)    == [t |-> "null", v |-> v]
Num(n)     == [t |-> "num", v |-> n]
Str(s)     == [t |-> "str", v |-> s]

Present(f) == f.t # "missing"

\* The five keys read with day[...], in the order the dict literal reads them.
REQUIRED == <<"datetime", "tempmax", "tempmin", "temp", "conditions">>

GoodEntry(date) ==
    [datetime   |-> Str(date),
     tempmax    |-> Num(31),
     tempmin    |-> Num(24),
     temp       |-> Num(27),
     conditions |-> Str("Rain"),
     precip     |-> Num(5)]

\* One entry for every way a single field of a good entry can be off.
Defects(date) ==
    LET g == GoodEntry(date)
    IN  { [g EXCEPT !.datetime = Missing(<<>>)],
          [g EXCEPT !.datetime = Null(<<>>)],
          [g EXCEPT !.datetime = Str(<<"n", "/", "a">>)],
          [g EXCEPT !.tempmax = Missing(0)],
          [g EXCEPT !.tempmax = Null(0)],
          [g EXCEPT !.tempmin = Missing(0)],
          [g EXCEPT !.temp = Missing(0)],
          [g EXCEPT !.conditions = Missing("")],
          [g EXCEPT !.precip = Missing(0)],
          [g EXCEPT !.precip = Null(0)] }

\* Payload bodies.
ObjectWithDays(days) ==
    [kind |-> "object", has_days |-> TRUE, days_is_list |-> TRUE, days |-> days,
     has_message |-> FALSE, message |-> ""]
ObjectDaysNotList ==
    [kind |-> "object", has_days |-> TRUE, days_is_list |-> FALSE, days |-> <<>>,
     has_message |-> FALSE, message |-> ""]
ObjectNoDays(has_message) ==
    [kind |-> "object", has_days |-> FALSE, days_is_list |-> FALSE, days |-> <<>>,
     has_message |-> has_message,
     message |-> IF has_message THEN "Invalid API key" ELSE ""]
NonObject ==
    [kind |-> "non_object", has_days |-> FALSE, days_is_list |-> FALSE,
     days |-> <<>>, has_message |-> FALSE, message |-> ""]
InvalidJson ==
    [kind |-> "invalid_json", has_days |-> FALSE, days_is_list |-> FALSE,
     days |-> <<>>, has_message |-> FALSE, message |-> ""]

\* What requests.get meets: no response at all (net # "ok"), or a final
\* response with a status code and a body.
Response(net, code, body) == [net |-> net, code |-> code, body |-> body]
NoResp == Response("none", 0, InvalidJson)

----------------------------------------------------------------------------
(* fetch_monthly_data, the function body (main.py:36-80).                  *)

NoError == [kind |-> "none", text |-> <<>>]
RequestFailed(cause) == [kind |-> "API Request Failed", text |-> <<cause>>]
Unexpected(text) == [kind |-> "Unexpected Error", text |-> text]

None == [ok |-> FALSE, rows |-> <<>>]
DataFrame(rows) == [ok |-> TRUE, rows |-> rows]

Request(c, y, m, k) ==
    [city |-> c, start |-> start_date(y, m), end |-> end_date(y, m), key |-> k]
NoRequest == [city |-> "", start |-> <<>>, end |-> <<>>, key |-> ""]

\* response.raise_for_status(): HTTPError for 4xx and 5xx.
\* Variant: raise_for_status() is not called.
raise_for_status_never(code) == FALSE
raise_for_status(code) == 400 <= code /\ code < 600

\* day.get("precip", 0)
get_precip(day) == IF Present(day.precip) THEN day.precip ELSE Num(0)

\* The first key of REQUIRED the entry lacks (0 when it has them all): the
\* dict literal raises KeyError there.
\* Variant: only the date is read with day[...].
first_missing_datetime_only(day) == IF Present(day.datetime) THEN 0 ELSE 1
first_missing(day) ==
    IF \A i \in 1..Len(REQUIRED) : Present(day[REQUIRED[i]]) THEN 0
    ELSE CHOOSE i \in 1..Len(REQUIRED) :
            /\ ~Present(day[REQUIRED[i]])
            /\ \A j \in 1..(i - 1) : Present(day[REQUIRED[j]])

\* The dict appended for one entry (the Date still a string).
row_of(day) ==
    [Date       |-> day.datetime,
     MaxTemp    |-> day.tempmax,
     MinTemp    |-> day.tempmin,
     AvgTemp    |-> day.temp,
     Conditions |-> day.conditions,
     Precip     |-> get_precip(day)]

\* pd.to_datetime on one cell: null becomes NaT, a date string its timestamp.
NaT == [t |-> "nat", v |-> 0]
Timestamp(ord) == [t |-> "ts", v |-> ord]
cell_parses(cell) == cell.t = "null" \/ parse_date(cell.v) # 0
to_datetime(cell) ==
    IF cell.t = "null" THEN NaT ELSE Timestamp(parse_date(cell.v))

\* The loop over data["days"], pd.DataFrame and df["Date"] = pd.to_datetime.
\* Yields [result, error].
SelectSeq_wellformed(days) ==
    SelectSeq(days, LAMBDA d : first_missing(d) = 0)

frame_of(days) ==
    DataFrame([i \in 1..Len(days) |->
                  [row_of(days[i]) EXCEPT !.Date = to_datetime(@)]])

\* Variant: entries lacking a required key are skipped.
build_frame_skip_rows(days) ==
    LET kept == SelectSeq_wellformed(days)
    IN  IF kept = <<>>
        THEN [result |-> None, error |-> Unexpected(<<"KeyError", "Date">>)]
        ELSE IF \E i \in 1..Len(kept) : ~cell_parses(kept[i].datetime)
        THEN [result |-> None, error |-> Unexpected(<<"to_datetime">>)]
        ELSE [result |-> frame_of(kept), error |-> NoError]

\* Variant: an empty list yields an empty frame.
build_frame_allow_empty(days) ==
    IF \E i \in 1..Len(days) : first_missing(days[i]) # 0
    THEN LET i == CHOOSE i \in 1..Len(days) :
                     /\ first_missing(days[i]) # 0
                     /\ \A j \in 1..(i - 1) : first_missing(days[j]) = 0
         IN  [result |-> None,
              error |-> Unexpected(<<"KeyError", REQUIRED[first_missing(days[i])]>>)]
    ELSE IF \E i \in 1..Len(days) : ~cell_parses(days[i].datetime)
    THEN [result |-> None, error |-> Unexpected(<<"to_datetime">>)]
    ELSE [result |-> frame_of(days), error |-> NoError]

build_frame(days) ==
    IF \E i \in 1..Len(days) : first_missing(days[i]) # 0
    THEN LET i == CHOOSE i \in 1..Len(days) :
                     /\ first_missing(days[i]) # 0
                     /\ \A j \in 1..(i - 1) : first_missing(days[j]) = 0
         IN  [result |-> None,
              error |-> Unexpected(<<"KeyError", REQUIRED[first_missing(days[i])]>>)]
    ELSE IF days = <<>>
    THEN \* pd.DataFrame([]) has no columns: df["Date"] raises KeyError
         [result |-> None, error |-> Unexpected(<<"KeyError", "Date">>)]
    ELSE IF \E i \in 1..Len(days) : ~cell_parses(days[i].datetime)
    THEN [result |-> None, error |-> Unexpected(<<"to_datetime">>)]
    ELSE [result |-> frame_of(days), error |-> NoError]

\* The body after response.json() returned `body` (main.py:57-73).
\* Variant: a payload without `days` reads as an empty success.
shape_missing_days_as_empty(body) ==
    IF body.kind # "object"
    THEN [result |-> None, error |-> Unexpected(<<"TypeError">>)]
    ELSE IF ~body.has_days
    THEN [result |-> DataFrame(<<>>), error |-> NoError]
    ELSE IF ~body.days_is_list
    THEN [result |-> None, error |-> Unexpected(<<"TypeError">>)]
    ELSE build_frame(body.days)

shape(body) ==
    IF body.kind # "object"
    THEN \* `"days" not in data`, data.get or data["days"] raises
         [result |-> None, error |-> Unexpected(<<"TypeError">>)]
    ELSE IF ~body.has_days
    THEN [result |-> None,
          error |-> Unexpected(<<"API Error",
                       IF body.has_message THEN body.message
                       ELSE "Invalid response">>)]
    ELSE IF ~body.days_is_list
    THEN [result |-> None, error |-> Unexpected(<<"TypeError">>)]
    ELSE build_frame(body.days)

\* One run of the body against what the provider answers.  `requests` counts
\* the GETs sent.
fetch_body(c, y, m, k, resp) ==
    LET req == Request(c, y, m, k)
        out ==
            IF resp.net # "ok"
            THEN [result |-> None, error |-> RequestFailed(resp.net)]
            ELSE IF raise_for_status(resp.code)
            THEN [result |-> None, error |-> RequestFailed("HTTPError")]
            ELSE IF resp.body.kind = "invalid_json"
            THEN \* response.json() raises requests' JSONDecodeError, a
                 \* RequestException
                 [result |-> None, error |-> RequestFailed("JSONDecodeError")]
            ELSE shape(resp.body)
    IN  [result |-> out.result, error |-> out.error, requests |-> 1, req |-> req]

----------------------------------------------------------------------------
(* @st.cache_data(ttl=3600): the memo around fetch_monthly_data.  An entry *)
(* holds what the body returned, the st.error it showed (replayed on a     *)
(* hit), the request that produced it, and its age in seconds.             *)

EmptyMap == [k \in {} |-> 0]

\* The arguments hashed into the key: all four (none starts with "_").
\* Variant: api_key is left out of the key.
CacheKey_without_credential(c, y, m, k) == <<c, y, m, "">>
CacheKey(c, y, m, k) == <<c, y, m, k>>

\* Variant: entries never expire.
Expired_never(age) == FALSE
Expired(age) == age >= TTL

Lookup(k) == k \in DOMAIN cache /\ ~Expired(cache[k].age)

\* Variant: a None outcome is not stored.
Store_success_only(k, out) ==
    IF out.result.ok
    THEN [x \in DOMAIN cache \cup {k} |->
            IF x = k
            THEN [value |-> out.result, error |-> out.error, req |-> out.req, age |-> 0]
            ELSE cache[x]]
    ELSE cache
Store(k, out) ==
    [x \in DOMAIN cache \cup {k} |->
        IF x = k
        THEN [value |-> out.result, error |-> out.error, req |-> out.req, age |-> 0]
        ELSE cache[x]]

\* History: seconds since the last GET sent for exactly these arguments, TTL
\* when none was sent during the last TTL seconds.
Since(g) == IF g \in DOMAIN issued THEN issued[g].age ELSE TTL

NoRun ==
    [kind |-> "none", net |-> 0, since |-> TTL, prev |-> None, resp |-> NoResp,
     req |-> NoRequest, result |-> None, error |-> NoError]

----------------------------------------------------------------------------
(* Operations.                                                             *)

\* The button is pressed (main.py:83-85): fetch_monthly_data(city, year,
\* month, api_key) through its cache.  On a hit the stored outcome comes back
\* and nothing is sent; on a miss the body runs against whichever answer of
\* `answers` the provider gives, and its outcome is stored.
Call(answers) ==
    \E k \in {CacheKey(city, year, month, api_key)} :
    \E hit \in {Lookup(k)} :
    LET g    == <<city, year, month, api_key>>
        prev == IF g \in DOMAIN issued THEN issued[g].result ELSE None
    IN  IF hit
        THEN /\ last' =
                   [kind   |-> "call",
                    net    |-> 0,
                    since  |-> Since(g),
                    prev   |-> prev,
                    resp   |-> NoResp,
                    req    |-> cache[k].req,
                    result |-> cache[k].value,
                    error  |-> cache[k].error]
             /\ UNCHANGED <<city, year, month, api_key, cache, issued>>
        ELSE \E resp \in answers :
             \E out \in {fetch_body(city, year, month, api_key, resp)} :
                 /\ Cardinality(DOMAIN cache) < MaxEntries
                 /\ cache' = Store(k, out)
                 /\ issued' =
                       [x \in DOMAIN issued \cup {g} |->
                           IF x = g THEN [age |-> 0, result |-> out.result]
                           ELSE issued[x]]
                 /\ last' =
                       [kind   |-> "call",
                        net    |-> out.requests,
                        since  |-> Since(g),
                        prev   |-> prev,
                        resp   |-> resp,
                        req    |-> out.req,
                        result |-> out.result,
                        error  |-> out.error]
                 /\ UNCHANGED <<city, year, month, api_key>>

\* Time passes; entries that reach the TTL are gone.
Advance ==
    /\ cache' = [k \in {x \in DOMAIN cache : ~Expired(cache[x].age + Tick)} |->
                    [cache[k] EXCEPT !.age = @ + Tick]]
    /\ issued' = [g \in {x \in DOMAIN issued : issued[x].age + Tick < TTL} |->
                    [issued[g] EXCEPT !.age = @ + Tick]]
    /\ UNCHANGED <<city, year, month, api_key, last>>

\* A widget is edited: the script reruns, the button is not pressed, nothing
\* is fetched or shown.
Cities == {"Chennai", "Delhi"}
ApiKeys == {"key-A", "key-B"}
SomeYears == {DefaultYear, DefaultYear + 1}
SomeMonths == {DefaultMonth, DefaultMonth + 1}

SetCity ==
    \E c \in Cities \ {city} :
        /\ city' = c
        /\ last' = NoRun
        /\ UNCHANGED <<year, month, api_key, cache, issued>>

SetYear ==
    \E y \in SomeYears \ {year} :
        /\ year' = y
        /\ last' = NoRun
        /\ UNCHANGED <<city, month, api_key, cache, issued>>

SetMonth ==
    \E m \in SomeMonths \ {month} :
        /\ month' = m
        /\ last' = NoRun
        /\ UNCHANGED <<city, year, api_key, cache, issued>>

SetApiKey ==
    \E k \in ApiKeys \ {api_key} :
        /\ api_key' = k
        /\ last' = NoRun
        /\ UNCHANGED <<city, year, month, cache, issued>>

----------------------------------------------------------------------------
(* What the provider may answer.                                           *)

ConnectionError == Response("conn_error", 0, InvalidJson)
Timeout == Response("timeout", 0, InvalidJson)

OneDay(y, m) == <<GoodEntry(start_date(y, m))>>

FullMonth(y, m) ==
    [i \in 1..days_in_month(y, m) |-> GoodEntry(strftime(<<y, m, i>>))]

\* Answers used where only success or failure matters.
PlainResponses(y, m) ==
    {ConnectionError, Response("ok", 200, ObjectWithDays(OneDay(y, m)))}

\* Entries of the short lists: three good days (two of the month, one of the
\* month before) and the first day with its date, a temperature or its
\* precipitation off.
ShapeEntries(y, m) ==
    LET g == GoodEntry(strftime(<<y, m, 1>>))
    IN  {g,
         GoodEntry(strftime(<<y, m, 2>>)),
         GoodEntry(strftime(ord2ymd(ymd2ord(y, m, 1) - 1))),
         [g EXCEPT !.datetime = Str(<<"n", "/", "a">>)],
         [g EXCEPT !.tempmax = Missing(0)],
         [g EXCEPT !.precip = Missing(0)],
         [g EXCEPT !.precip = Null(0)]}

ShortLists(y, m) ==
    UNION {[1..n -> ShapeEntries(y, m)] : n \in 0..MaxDays}
    \cup {<<e>> : e \in Defects(strftime(<<y, m, 1>>))}

\* The whole month, and the whole month with one entry off, dropped or added.
LongLists(y, m) ==
    LET full == FullMonth(y, m)
        n    == Len(full)
    IN  {full, SubSeq(full, 1, n - 1), SubSeq(full, 2, n),
         full \o <<GoodEntry(strftime(ord2ymd(ymd2ord(y, m, n) + 1)))>>}
        \cup {[full EXCEPT ![n] = e] : e \in Defects(strftime(<<y, m, n>>))}

ShapeBodies(y, m) ==
    {ObjectWithDays(d) : d \in ShortLists(y, m) \cup LongLists(y, m)}
    \cup {ObjectDaysNotList, ObjectNoDays(TRUE), ObjectNoDays(FALSE),
          NonObject, InvalidJson}

ShapeResponses(y, m) ==
    {Response("ok", 200, b) : b \in ShapeBodies(y, m)}
    \cup {ConnectionError, Timeout}
    \cup {Response("ok", c, b) :
             c \in {300, 404, 503},
             b \in {InvalidJson, ObjectNoDays(TRUE),
                    ObjectWithDays(OneDay(y, m)), ObjectWithDays(FullMonth(y, m))}}

Fetch == Call(PlainResponses(year, month))

FetchShape == Call(ShapeResponses(year, month))

----------------------------------------------------------------------------
(* Specifications.                                                         *)

\* The app as started: the widgets at their defaults, nothing cached.
Init ==
    /\ city = "Chennai"
    /\ year = DefaultYear
    /\ month = DefaultMonth
    /\ api_key = "key-A"
    /\ cache = EmptyMap
    /\ issued = EmptyMap
    /\ last = NoRun

Next == SetCity \/ SetYear \/ SetMonth \/ SetApiKey \/ Fetch \/ Advance

Spec == Init /\ [][Next]_vars

\* The default query against every shape of answer.
NextShape == FetchShape \/ Advance

SpecShape == Init /\ [][NextShape]_vars

\* Every year and month the widgets offer.
InitRange ==
    /\ city = "Chennai"
    /\ year \in MinYear..MaxYear
    /\ month \in 1..12
    /\ api_key = "key-A"
    /\ cache = EmptyMap
    /\ issued = EmptyMap
    /\ last = NoRun

NextRange == Fetch \/ Advance

SpecRange == InitRange /\ [][NextRange]_vars

----------------------------------------------------------------------------
(* Properties.                                                             *)

Called == last.kind = "call"
Sent == Called /\ last.net >= 1
Is2xx(code) == code >= 200 /\ code <= 299
DaysOf(resp) == resp.body.days
HasDaysList(resp) == resp.body.kind = "object" /\ resp.body.has_days /\ resp.body.days_is_list

\* The calendar, stated directly.
LeapYear(y) == (y % 4 = 0 /\ y % 100 # 0) \/ y % 400 = 0
LastDayOfMonth(y, m) ==
    CASE m \in {4, 6, 9, 11} -> 30
      [] m = 2 -> (IF LeapYear(y) THEN 29 ELSE 28)
      [] OTHER -> 31

LacksRequired(e) ==
    \E f \in {"datetime", "tempmax", "tempmin", "temp", "conditions"} :
        e[f].t = "missing"

\* C1: a call made less than TTL seconds after a GET was sent for the same
\* (city, year, month, api_key) is a cache hit that sends nothing, so the two
\* calls send at most one GET in total; a call made when no GET was sent for
\* these arguments during the last TTL seconds sends a new GET.
C1_OneCallPerTTL ==
    Called =>
        /\ last.net <= 1
        /\ last.since < TTL => last.net = 0
        /\ last.since >= TTL => last.net = 1

C1_Witness == Called /\ last.since > 0 /\ last.since < TTL /\ last.net = 0

\* C2: when the GET sent for these arguments less than TTL seconds ago ended
\* in a failure (None), the call returns that failure again and sends nothing.
C2_FailureIsCached ==
    (Called /\ last.since < TTL /\ ~last.prev.ok) =>
        /\ last.net = 0
        /\ last.result = None
        /\ last.error.kind # "none"

C2_Witness ==
    /\ Called /\ last.since > 0 /\ last.since < TTL /\ ~last.prev.ok
    /\ last.net = 0 /\ last.result = None

\* C3: the range requested is the first day of (year, month) up to the last
\* calendar day of that month (the 29th of February in leap years, the 28th
\* otherwise), and the start is not after the end.
C3_RangeIsTheMonth ==
    Sent =>
        /\ last.req.start = strftime(<<year, month, 1>>)
        /\ last.req.end = strftime(<<year, month, LastDayOfMonth(year, month)>>)
        /\ parse_date(last.req.start) # 0
        /\ parse_date(last.req.start) <= parse_date(last.req.end)

C3_Witness ==
    /\ Sent /\ year = 2024 /\ month = 2
    /\ last.req.start = <<"2", "0", "2", "4", "-", "0", "2", "-", "0", "1">>
    /\ last.req.end = <<"2", "0", "2", "4", "-", "0", "2", "-", "2", "9">>

\* C4 as claimed: a successful result holds a well-formed record for every
\* calendar day of the requested range and no record outside it.
C4_CoversRequestedRange ==
    (Called /\ last.result.ok) =>
        LET s    == parse_date(last.req.start)
            e    == parse_date(last.req.end)
            rows == last.result.rows
        IN  /\ \A d \in s..e : \E i \in 1..Len(rows) : rows[i].Date = Timestamp(d)
            /\ \A i \in 1..Len(rows) :
                  /\ rows[i].Date.t = "ts"
                  /\ rows[i].Date.v \in s..e

\* C4 as amended: a successful result is never partial with respect to the
\* payload: it holds one record per entry of the provider's `days` list, in
\* the provider's order, every entry having all five required fields; it
\* covers exactly the days of the requested range when the provider sent
\* exactly one entry per day of that range.
C4_NeverPartialOfPayload ==
    (Sent /\ last.result.ok) =>
        LET s    == parse_date(last.req.start)
            e    == parse_date(last.req.end)
            days == DaysOf(last.resp)
            rows == last.result.rows
        IN  /\ HasDaysList(last.resp)
            /\ Len(rows) = Len(days)
            /\ \A i \in 1..Len(days) :
                  /\ ~LacksRequired(days[i])
                  /\ rows[i].MaxTemp = days[i].tempmax
                  /\ rows[i].MinTemp = days[i].tempmin
                  /\ rows[i].AvgTemp = days[i].temp
                  /\ rows[i].Conditions = days[i].conditions
            /\ (/\ Len(days) = e - s + 1
                /\ \A i \in 1..Len(days) :
                      days[i].datetime = Str(strftime(<<year, month, i>>)))
               => \A i \in 1..Len(rows) : rows[i].Date = Timestamp(s + i - 1)

C4_Witness ==
    /\ Sent /\ last.result.ok
    /\ Len(last.result.rows) = LastDayOfMonth(year, month)
    /\ Len(DaysOf(last.resp)) = LastDayOfMonth(year, month)
    /\ last.result.rows[1].Date = Timestamp(parse_date(last.req.start))
    /\ last.result.rows[Len(last.result.rows)].Date
          = Timestamp(parse_date(last.req.end))

\* C5: a 2xx answer whose payload has no `days` field makes the call return
\* None with an error shown, carrying the payload's message when it has one
\* and "Invalid response" otherwise; never a success, empty or not.
C5_MissingDaysFails ==
    (Sent /\ last.resp.net = "ok" /\ Is2xx(last.resp.code)
          /\ last.resp.body.kind = "object" /\ ~last.resp.body.has_days) =>
        /\ last.result = None
        /\ last.error.kind = "Unexpected Error"
        /\ last.error.text =
              <<"API Error",
                IF last.resp.body.has_message THEN last.resp.body.message
                ELSE "Invalid response">>

C5_Witness ==
    /\ Sent /\ last.resp.net = "ok" /\ Is2xx(last.resp.code)
    /\ last.resp.body.kind = "object" /\ ~last.resp.body.has_days
    /\ last.resp.body.has_message
    /\ last.result = None
    /\ last.error.text = <<"API Error", "Invalid API key">>

\* C6 as claimed: when every entry of the `days` list has its required fields
\* and a date, the fetch succeeds and each record's precipitation is 0 where
\* the entry's `precip` is missing or null, and the provider's value otherwise.
C6_PrecipDefaultsToZero ==
    (/\ Sent /\ last.resp.net = "ok" /\ Is2xx(last.resp.code)
     /\ HasDaysList(last.resp) /\ DaysOf(last.resp) # <<>>
     /\ \A i \in 1..Len(DaysOf(last.resp)) :
           /\ ~LacksRequired(DaysOf(last.resp)[i])
           /\ DaysOf(last.resp)[i].datetime.t = "str"
           /\ parse_date(DaysOf(last.resp)[i].datetime.v) # 0) =>
        /\ last.result.ok
        /\ Len(last.result.rows) = Len(DaysOf(last.resp))
        /\ \A i \in 1..Len(DaysOf(last.resp)) :
              last.result.rows[i].Precip =
                 IF DaysOf(last.resp)[i].precip.t \in {"missing", "null"}
                 THEN Num(0)
                 ELSE DaysOf(last.resp)[i].precip

\* C7: when any entry of the `days` list lacks datetime, tempmax, tempmin,
\* temp or conditions, the call returns None with an error shown: no record
\* comes back, the well-formed entries around the bad one included.
C7_MissingRequiredFails ==
    (/\ Sent /\ HasDaysList(last.resp)
     /\ \E i \in 1..Len(DaysOf(last.resp)) : LacksRequired(DaysOf(last.resp)[i])) =>
        /\ last.result = None
        /\ last.result.rows = <<>>
        /\ last.error.kind # "none"

C7_Witness ==
    /\ Sent /\ last.resp.net = "ok" /\ Is2xx(last.resp.code)
    /\ HasDaysList(last.resp)
    /\ Len(DaysOf(last.resp)) >= 2
    /\ ~LacksRequired(DaysOf(last.resp)[1])
    /\ LacksRequired(DaysOf(last.resp)[Len(DaysOf(last.resp))])
    /\ last.result = None
    /\ last.error.kind = "Unexpected Error"

\* C8 as claimed: a connection error, a timeout or any non-2xx status makes
\* the call return None with an error shown, after exactly one GET.
C8_Non2xxFails ==
    (Sent /\ (last.resp.net # "ok" \/ ~Is2xx(last.resp.code))) =>
        /\ last.result = None
        /\ last.error.kind # "none"
        /\ last.net = 1

\* C8 as amended: a connection error, a timeout or a 4xx/5xx status makes the
\* call return None with "API Request Failed" shown, whatever the body holds,
\* after exactly one GET.
C8_ErrorStatusFails ==
    (Sent /\ (last.resp.net # "ok"
              \/ (last.resp.code >= 400 /\ last.resp.code <= 599))) =>
        /\ last.result = None
        /\ last.error.kind = "API Request Failed"
        /\ last.net = 1

C8_Witness ==
    /\ Sent /\ last.resp.net = "ok" /\ last.resp.code = 404
    /\ HasDaysList(last.resp)
    /\ Len(DaysOf(last.resp)) = LastDayOfMonth(year, month)
    /\ \A i \in 1..Len(DaysOf(last.resp)) : ~LacksRequired(DaysOf(last.resp)[i])
    /\ last.result = None
    /\ last.net = 1

\* C9: what a call returns was produced by a request made for exactly the
\* current (city, year, month, api_key), and every stored entry was produced
\* by a request made for the four values of its key; a call for which no GET
\* was sent with these four values during the last TTL seconds sends its own.
C9_KeyIsTheFourArguments ==
    /\ \A k \in DOMAIN cache :
          /\ cache[k].req.city = k[1]
          /\ cache[k].req.start = strftime(<<k[2], k[3], 1>>)
          /\ cache[k].req.key = k[4]
    /\ Called =>
          /\ last.req.city = city
          /\ last.req.start = strftime(<<year, month, 1>>)
          /\ last.req.key = api_key
          /\ last.since >= TTL => last.net = 1

C9_Witness ==
    /\ Sent
    /\ \E k \in DOMAIN cache :
          /\ k # <<city, year, month, api_key>>
          /\ k[1] = city /\ k[2] = year /\ k[3] = month
    /\ last.req.key = api_key

\* C10: an empty `days` list makes the call return None (the generic handler
\* catches the KeyError of df["Date"]), so a successful result always holds
\* at least one record.
C10_EmptyDaysFails ==
    /\ (Sent /\ HasDaysList(last.resp) /\ DaysOf(last.resp) = <<>>) =>
          /\ last.result = None
          /\ (last.resp.net = "ok" /\ Is2xx(last.resp.code))
                => last.error = Unexpected(<<"KeyError", "Date">>)
    /\ (Called /\ last.result.ok) => Len(last.result.rows) >= 1

C10_Witness ==
    /\ Sent /\ last.resp.net = "ok" /\ Is2xx(last.resp.code)
    /\ HasDaysList(last.resp) /\ DaysOf(last.resp) = <<>>
    /\ last.result = None
    /\ last.error.kind = "Unexpected Error"

============================================================================
